---------------------------- MODULE Spec2Model ----------------------------
(***************************************************************************)
(* State-machine model of the Binance API server (src/binance_server.js    *)
(* and the controller variant src/unnamed/part_000).                       *)
(*                                                                         *)
(* Node runs one handler segment at a time: the code between two awaits    *)
(* is atomic.  Every action below is one such segment: the synchronous     *)
(* prefix of a handler up to its await, the continuation after the         *)
(* provider's promise settles, or a websocket callback.                    *)
(*                                                                         *)
(* Numbers.  Provider prices are integers in the model.  The typical price *)
(* (high + low + close) / 3 is kept in thirds (the integer high+low+close) *)
(* and the thresholds median +/- 5 * 1.4826 * mad in units of 1/30000, so  *)
(* that every comparison the code makes is decided exactly:                *)
(*   high > threshold  <=>  30000*high > 10000*median3 + 5*14826*mad3.     *)
(* For integer prices a tie can only occur when mad3 = 0 and 3*high =      *)
(* median3, where the doubles of the code are exact too.                   *)
(***************************************************************************)
EXTENDS Integers, Sequences, FiniteSets, TLC

VARIABLES
    activeConnections,  \* the Map of binance_server.js:47 / part_000:94
    subscriptions,      \* websocket subscriptions opened so far, per cache key
    req                 \* the HTTP requests: handler, position, locals, responses

vars == <<activeConnections, subscriptions, req>>

---------------------------------------------------------------------------
(* Bounds of the model. *)

MaxLen == 3     \* longest provider window of the cleaning specification
MaxReq == 3     \* number of HTTP requests of the server specification

Prices == {1, 2, 8}         \* provider prices
TickerPrices == {1, 2}      \* prices of ticker / prices() replies
Symbols == {"BTCUSDT"}
Intervals == {"1m"}
Reqs == 1..MaxReq

---------------------------------------------------------------------------
(* JavaScript values. *)

\* `undefined`: what reading a missing property yields.
Undefined == -2
\* NaN: parseFloat(undefined); also the time value of an Invalid Date.
NaN == -1

\* A provider candle is an object with named properties (c.openTime, c.open,
\* ...), the shape getCandlesticks reads; the chart callback turns such
\* objects into arrays [openTime, open, high, low, close, volume].
Obj(rec) == [shape |-> "object", v |-> rec]
Arr(tup) == [shape |-> "array", v |-> tup]

\* c.name
Prop(c, name) == IF c.shape = "object" THEN c.v[name] ELSE Undefined
\* c[k], k a 0-based index
Index(c, k) == IF c.shape = "array" THEN c.v[k + 1] ELSE Undefined

parseFloat(x) == IF x = Undefined THEN NaN ELSE x
NewDate(x) == IF x = Undefined THEN NaN ELSE x

Abs(x) == IF x < 0 THEN 0 - x ELSE x

---------------------------------------------------------------------------
(* formatCandles: reads each candle by index. *)

formatCandles(candles) ==
    [i \in 1..Len(candles) |->
        [time   |-> NewDate(Index(candles[i], 0)),
         open   |-> parseFloat(Index(candles[i], 1)),
         high   |-> parseFloat(Index(candles[i], 2)),
         low    |-> parseFloat(Index(candles[i], 3)),
         close  |-> parseFloat(Index(candles[i], 4)),
         volume |-> parseFloat(Index(candles[i], 5))]]

\* Object.values(chart).map(c => [c.openTime, c.open, ...])
ChartArrays(chart) ==
    [i \in 1..Len(chart) |->
        Arr(<<Prop(chart[i], "openTime"), Prop(chart[i], "open"),
              Prop(chart[i], "high"), Prop(chart[i], "low"),
              Prop(chart[i], "close"), Prop(chart[i], "volume")>>)]

---------------------------------------------------------------------------
(* getCandlesticks of binance_server.js: parse, detect, scan. *)

\* First pass: parse all candles.
ParseCandles(candles) ==
    [i \in 1..Len(candles) |->
        [time     |-> NewDate(Prop(candles[i], "openTime")),
         open     |-> parseFloat(Prop(candles[i], "open")),
         high     |-> parseFloat(Prop(candles[i], "high")),
         low      |-> parseFloat(Prop(candles[i], "low")),
         close    |-> parseFloat(Prop(candles[i], "close")),
         volume   |-> parseFloat(Prop(candles[i], "volume")),
         original |-> TRUE]]

\* The controller variant formats without the `original` flag.
CtlFormat(candles) ==
    [i \in 1..Len(candles) |->
        [time   |-> NewDate(Prop(candles[i], "openTime")),
         open   |-> parseFloat(Prop(candles[i], "open")),
         high   |-> parseFloat(Prop(candles[i], "high")),
         low    |-> parseFloat(Prop(candles[i], "low")),
         close  |-> parseFloat(Prop(candles[i], "close")),
         volume |-> parseFloat(Prop(candles[i], "volume"))]]

\* [...a].sort((a, b) => a - b)
RECURSIVE SortAsc(_)
SortAsc(s) ==
    IF Len(s) <= 1 THEN s
    ELSE LET rest == SortAsc(Tail(s))
             x == Head(s)
         IN SelectSeq(rest, LAMBDA y : y < x) \o <<x>>
              \o SelectSeq(rest, LAMBDA y : y >= x)

multiplier == 5
\* 1.4826, in units of 1/10000
MadScale == 14826
\* one price unit in threshold units: 3 (thirds) * 10000
PriceUnit == 3 * 10000

\* typicalPrices, in thirds
TypicalPrices(candles) ==
    [i \in 1..Len(candles) |-> candles[i].high + candles[i].low + candles[i].close]

\* Math.floor(length / 2), as a 1-based position
MidIndex(n) == (n \div 2) + 1

\* A variant of detectOutliers taking the lower of the two middle elements.
detectOutliersLowMedian(candles) ==
    LET sorted == SortAsc(TypicalPrices(candles))
        median == sorted[((Len(sorted) - 1) \div 2) + 1]
        deviations == SortAsc([i \in 1..Len(sorted) |-> Abs(sorted[i] - median)])
        mad == deviations[((Len(deviations) - 1) \div 2) + 1]
    IN [median |-> median, mad |-> mad,
        threshold |-> (PriceUnit \div 3) * median + multiplier * MadScale * mad,
        lowerThreshold |-> (PriceUnit \div 3) * median - multiplier * MadScale * mad]

\* A variant of detectOutliers that does not sort the deviations.
detectOutliersUnsortedDev(candles) ==
    LET sorted == SortAsc(TypicalPrices(candles))
        median == sorted[MidIndex(Len(sorted))]
        deviations == [i \in 1..Len(sorted) |-> Abs(sorted[i] - median)]
        mad == deviations[MidIndex(Len(deviations))]
    IN [median |-> median, mad |-> mad,
        threshold |-> (PriceUnit \div 3) * median + multiplier * MadScale * mad,
        lowerThreshold |-> (PriceUnit \div 3) * median - multiplier * MadScale * mad]

\* median and mad in thirds, threshold and lowerThreshold in 1/30000.
detectOutliers(candles) ==
    LET sorted == SortAsc(TypicalPrices(candles))
        median == sorted[MidIndex(Len(sorted))]
        deviations == SortAsc([i \in 1..Len(sorted) |-> Abs(sorted[i] - median)])
        mad == deviations[MidIndex(Len(deviations))]
    IN [median |-> median, mad |-> mad,
        threshold |-> (PriceUnit \div 3) * median + multiplier * MadScale * mad,
        lowerThreshold |-> (PriceUnit \div 3) * median - multiplier * MadScale * mad]

isOutlierHigh(current, th) ==
    \/ PriceUnit * current.high > th.threshold
    \/ PriceUnit * current.high < th.lowerThreshold

isOutlierLow(current, th) ==
    \/ PriceUnit * current.low > th.threshold
    \/ PriceUnit * current.low < th.lowerThreshold

\* The loop's variables before the first iteration; previousValidCandle is
\* <<>> for null and <<candle>> otherwise.
ScanInit == [cleanedCandles |-> <<>>, previousValidCandle |-> <<>>]

\* A variant of the loop body that stores every candle as the previous one.
ScanStepAlwaysStore(st, current, th) ==
    LET corrected ==
            [st.previousValidCandle[1] EXCEPT
                !.time = current.time, !.volume = current.volume,
                !.original = FALSE]
    IN IF st.previousValidCandle # <<>>
          /\ (isOutlierHigh(current, th) \/ isOutlierLow(current, th))
       THEN [cleanedCandles |-> Append(st.cleanedCandles, corrected),
             previousValidCandle |-> <<current>>]
       ELSE [cleanedCandles |-> Append(st.cleanedCandles, current),
             previousValidCandle |-> <<current>>]

\* A variant of the loop body whose correction keeps the whole previous candle.
ScanStepKeepAll(st, current, th) ==
    LET corrected == [st.previousValidCandle[1] EXCEPT !.original = FALSE]
    IN IF st.previousValidCandle # <<>>
          /\ (isOutlierHigh(current, th) \/ isOutlierLow(current, th))
       THEN [cleanedCandles |-> Append(st.cleanedCandles, corrected),
             previousValidCandle |-> st.previousValidCandle]
       ELSE [cleanedCandles |-> Append(st.cleanedCandles, current),
             previousValidCandle |-> <<current>>]

\* A variant of the loop body that corrects whenever a previous candle exists.
ScanStepNoTest(st, current, th) ==
    LET corrected ==
            [st.previousValidCandle[1] EXCEPT
                !.time = current.time, !.volume = current.volume,
                !.original = FALSE]
    IN IF st.previousValidCandle # <<>>
       THEN [cleanedCandles |-> Append(st.cleanedCandles, corrected),
             previousValidCandle |-> st.previousValidCandle]
       ELSE [cleanedCandles |-> Append(st.cleanedCandles, current),
             previousValidCandle |-> <<current>>]

\* One iteration of the for loop.
ScanStep(st, current, th) ==
    LET corrected ==
            [st.previousValidCandle[1] EXCEPT
                !.time = current.time, !.volume = current.volume,
                !.original = FALSE]
    IN IF st.previousValidCandle # <<>>
          /\ (isOutlierHigh(current, th) \/ isOutlierLow(current, th))
       THEN [cleanedCandles |-> Append(st.cleanedCandles, corrected),
             previousValidCandle |-> st.previousValidCandle]
       ELSE [cleanedCandles |-> Append(st.cleanedCandles, current),
             previousValidCandle |-> <<current>>]

\* The loop's variables after i iterations.
RECURSIVE Scan(_, _, _)
Scan(formatted, th, i) ==
    IF i = 0 THEN ScanInit
    ELSE ScanStep(Scan(formatted, th, i - 1), formatted[i], th)

\* cleanedCandles.map(({ original, ...rest }) => rest)
StripOriginal(cleaned) ==
    [i \in 1..Len(cleaned) |->
        [time   |-> cleaned[i].time,   open  |-> cleaned[i].open,
         high   |-> cleaned[i].high,   low   |-> cleaned[i].low,
         close  |-> cleaned[i].close,  volume |-> cleaned[i].volume]]

\* cleanedCandles at the end of the second pass.
CleanedCandles(candles) ==
    LET formatted == ParseCandles(candles)
    IN Scan(formatted, detectOutliers(formatted), Len(formatted)).cleanedCandles


---------------------------------------------------------------------------
(* Provider data. *)

\* The i-th candle of a provider window: open times ascend, and each candle
\* has a volume of its own.
Candle(i, o, h, l, c) ==
    Obj([openTime |-> 60000 * i, open |-> o, high |-> h, low |-> l,
         close |-> c, volume |-> 100 + i])

\* Price shapes of a candle.  The code does not validate low <= close <= high,
\* so close (and open with it) may lie below low or above high.
Shapes ==
    {sh \in [open : Prices, high : Prices, low : Prices, close : Prices] :
        sh.low <= sh.high /\ sh.open = sh.close}

WindowOf(shapes) ==
    [i \in 1..Len(shapes) |->
        Candle(i, shapes[i].open, shapes[i].high, shapes[i].low, shapes[i].close)]

\* A window of candles with open = high = low = close.
FlatWindow(prices) ==
    [i \in 1..Len(prices) |-> Candle(i, prices[i], prices[i], prices[i], prices[i])]

\* The five-candle scenario of the specification's section 8.
ScenarioWindow == FlatWindow(<<100, 101, 99, 102, 5000>>)

\* Provider windows of the server specification.
SysWindows == {FlatWindow(<<1, 2>>), FlatWindow(<<1, 2, 20>>)}

\* What a settled provider promise carries.
NoReply == [tag |-> "none", candles |-> <<>>, price |-> 0, message |-> ""]
CandlesReply(w) == [tag |-> "candles", candles |-> w, price |-> 0, message |-> ""]
NullReply == [tag |-> "null", candles |-> <<>>, price |-> 0, message |-> ""]
PriceReply(p) == [tag |-> "price", candles |-> <<>>, price |-> p, message |-> ""]
ErrorReply(m) == [tag |-> "error", candles |-> <<>>, price |-> 0, message |-> m]

ProviderErrors == {"ETIMEDOUT"}

---------------------------------------------------------------------------
(* The server's state. *)

\* Cache keys: `symbol` and `${symbol}_${interval}`, as the tuple of their parts.
PriceKey(symbol) == <<symbol>>
CacheKey(symbol, interval) == <<symbol, "_", interval>>
Keys == {PriceKey(s) : s \in Symbols}
          \cup {CacheKey(s, i) : s \in Symbols, i \in Intervals}

Has(map, key) == key \in DOMAIN map
MapSet(map, key, value) == (key :> value) @@ map

IdleReq ==
    [kind |-> "none", pc |-> "idle", symbol |-> "", interval |-> "",
     reply |-> NoReply, cleanedCandles |-> <<>>, res |-> <<>>]

\* res.json(body) and res.status(500).json(body)
Json(body) == [status |-> 200, body |-> body]
Status500(body) == [status |-> 500, body |-> body]

Init ==
    /\ activeConnections = <<>>
    /\ subscriptions = [k \in Keys |-> 0]
    /\ req = [r \in Reqs |-> IdleReq]

\* Requests arrive in the order of their numbers.
Arrives(r) ==
    /\ req[r].pc = "idle"
    /\ \A q \in Reqs : q < r => req[q].pc # "idle"

---------------------------------------------------------------------------
(* getCandlesticks (binance_server.js). *)

\* Up to the await of binanceClient.candlesticks.
GetCandlesticks(r, symbol, interval) ==
    /\ Arrives(r)
    /\ req' = [req EXCEPT ![r] =
                  [IdleReq EXCEPT !.kind = "getCandlesticks", !.pc = "await",
                                  !.symbol = symbol, !.interval = interval]]
    /\ UNCHANGED <<activeConnections, subscriptions>>

NoCandleData ==
    [error |-> "No candle data received from Binance",
     details |-> "Failed to fetch candle data from Binance API"]

\* A variant of the continuation that answers from the Map when it holds the key.
GetCandlesticksResolvedFromCache(r, reply) ==
    /\ req[r].kind = "getCandlesticks" /\ req[r].pc = "await"
    /\ reply.tag \in {"candles", "null"}
    /\ IF reply.tag = "null" \/ Len(reply.candles) = 0
       THEN req' = [req EXCEPT ![r].pc = "done", ![r].reply = reply,
                               ![r].res = Append(@, Status500(NoCandleData))]
       ELSE IF Has(activeConnections, CacheKey(req[r].symbol, req[r].interval))
       THEN req' = [req EXCEPT
                      ![r].pc = "done", ![r].reply = reply,
                      ![r].res = Append(@, Json(activeConnections[
                                    CacheKey(req[r].symbol, req[r].interval)]))]
       ELSE LET cleanedCandles == CleanedCandles(reply.candles)
            IN req' = [req EXCEPT
                          ![r].pc = "done", ![r].reply = reply,
                          ![r].cleanedCandles = cleanedCandles,
                          ![r].res = Append(@, Json(StripOriginal(cleanedCandles)))]
    /\ UNCHANGED <<activeConnections, subscriptions>>

\* A variant of the continuation without the check for an empty reply.
GetCandlesticksResolvedNoCheck(r, reply) ==
    /\ req[r].kind = "getCandlesticks" /\ req[r].pc = "await"
    /\ reply.tag \in {"candles", "null"}
    /\ IF reply.tag = "null"
       THEN req' = [req EXCEPT ![r].pc = "done", ![r].reply = reply,
                               ![r].res = Append(@, Status500(NoCandleData))]
       ELSE req' = [req EXCEPT ![r].pc = "done", ![r].reply = reply,
                               ![r].res = Append(@, Json(<<>>))]
    /\ UNCHANGED <<activeConnections, subscriptions>>

\* The promise resolved: the rest of the try block, or the catch block when
\* the reply is null or empty.
GetCandlesticksResolved(r, reply) ==
    /\ req[r].kind = "getCandlesticks" /\ req[r].pc = "await"
    /\ reply.tag \in {"candles", "null"}
    /\ IF reply.tag = "null" \/ Len(reply.candles) = 0
       THEN req' = [req EXCEPT ![r].pc = "done", ![r].reply = reply,
                               ![r].res = Append(@, Status500(NoCandleData))]
       ELSE LET cleanedCandles == CleanedCandles(reply.candles)
            IN req' = [req EXCEPT
                          ![r].pc = "done", ![r].reply = reply,
                          ![r].cleanedCandles = cleanedCandles,
                          ![r].res = Append(@, Json(StripOriginal(cleanedCandles)))]
    /\ UNCHANGED <<activeConnections, subscriptions>>

\* The promise rejected: the catch block.
GetCandlesticksRejected(r, message) ==
    /\ req[r].kind = "getCandlesticks" /\ req[r].pc = "await"
    /\ req' = [req EXCEPT
                  ![r].pc = "done", ![r].reply = ErrorReply(message),
                  ![r].res = Append(@, Status500(
                      [error |-> message,
                       details |-> "Failed to fetch candle data from Binance API"]))]
    /\ UNCHANGED <<activeConnections, subscriptions>>


---------------------------------------------------------------------------
(* getCandlesticks of the controller variant (part_000). *)

CtlGetCandlesticks(r, symbol, interval) ==
    /\ Arrives(r)
    /\ req' = [req EXCEPT ![r] =
                  [IdleReq EXCEPT !.kind = "ctlGetCandlesticks", !.pc = "await",
                                  !.symbol = symbol, !.interval = interval]]
    /\ UNCHANGED <<activeConnections, subscriptions>>

CtlGetCandlesticksResolved(r, reply) ==
    /\ req[r].kind = "ctlGetCandlesticks" /\ req[r].pc = "await"
    /\ reply.tag \in {"candles", "null"}
    /\ IF reply.tag = "null" \/ Len(reply.candles) = 0
       THEN req' = [req EXCEPT ![r].pc = "done", ![r].reply = reply,
                               ![r].res = Append(@, Status500(NoCandleData))]
       ELSE req' = [req EXCEPT ![r].pc = "done", ![r].reply = reply,
                               ![r].res = Append(@, Json(CtlFormat(reply.candles)))]
    /\ UNCHANGED <<activeConnections, subscriptions>>

CtlGetCandlesticksRejected(r, message) ==
    /\ req[r].kind = "ctlGetCandlesticks" /\ req[r].pc = "await"
    /\ req' = [req EXCEPT
                  ![r].pc = "done", ![r].reply = ErrorReply(message),
                  ![r].res = Append(@, Status500(
                      [error |-> message,
                       details |-> "Failed to fetch candle data from Binance API"]))]
    /\ UNCHANGED <<activeConnections, subscriptions>>

---------------------------------------------------------------------------
(* getRealTimePrice. *)

\* Up to the return from the cache, or to the await of binanceClient.prices
\* after the ticker subscription is opened.
GetRealTimePrice(r, symbol) ==
    /\ Arrives(r)
    /\ IF Has(activeConnections, PriceKey(symbol))
       THEN /\ req' = [req EXCEPT ![r] =
                         [IdleReq EXCEPT
                             !.kind = "getRealTimePrice", !.pc = "done",
                             !.symbol = symbol,
                             !.res = <<Json([price |->
                                         activeConnections[PriceKey(symbol)]])>>]]
            /\ UNCHANGED subscriptions
       ELSE /\ subscriptions' =
                  [subscriptions EXCEPT ![PriceKey(symbol)] = @ + 1]
            /\ req' = [req EXCEPT ![r] =
                         [IdleReq EXCEPT
                             !.kind = "getRealTimePrice", !.pc = "await",
                             !.symbol = symbol]]
    /\ UNCHANGED activeConnections

GetRealTimePriceResolved(r, price) ==
    /\ req[r].kind = "getRealTimePrice" /\ req[r].pc = "await"
    /\ req' = [req EXCEPT ![r].pc = "done", ![r].reply = PriceReply(price),
                          ![r].res = Append(@, Json([price |-> price]))]
    /\ UNCHANGED <<activeConnections, subscriptions>>

GetRealTimePriceRejected(r, message) ==
    /\ req[r].kind = "getRealTimePrice" /\ req[r].pc = "await"
    /\ req' = [req EXCEPT ![r].pc = "done", ![r].reply = ErrorReply(message),
                          ![r].res = Append(@, Status500([error |-> message]))]
    /\ UNCHANGED <<activeConnections, subscriptions>>

\* The callback of an open ticker subscription.
TickerCallback(symbol, close) ==
    /\ subscriptions[PriceKey(symbol)] > 0
    /\ activeConnections' =
          MapSet(activeConnections, PriceKey(symbol), parseFloat(close))
    /\ UNCHANGED <<subscriptions, req>>

---------------------------------------------------------------------------
(* getRealTimeCandlesticks. *)

\* Up to the return from the cache, or to the await of binanceClient.candlesticks.
GetRealTimeCandlesticks(r, symbol, interval) ==
    /\ Arrives(r)
    /\ IF Has(activeConnections, CacheKey(symbol, interval))
       THEN req' = [req EXCEPT ![r] =
                      [IdleReq EXCEPT
                          !.kind = "getRealTimeCandlesticks", !.pc = "done",
                          !.symbol = symbol, !.interval = interval,
                          !.res = <<Json(activeConnections[
                                            CacheKey(symbol, interval)])>>]]
       ELSE req' = [req EXCEPT ![r] =
                      [IdleReq EXCEPT
                          !.kind = "getRealTimeCandlesticks", !.pc = "await",
                          !.symbol = symbol, !.interval = interval]]
    /\ UNCHANGED <<activeConnections, subscriptions>>

\* The promise resolved: format, store, subscribe, respond.  formatCandles(null)
\* throws ("Cannot read properties of null") into the catch block.
GetRealTimeCandlesticksResolved(r, reply) ==
    /\ req[r].kind = "getRealTimeCandlesticks" /\ req[r].pc = "await"
    /\ reply.tag \in {"candles", "null"}
    /\ IF reply.tag = "null"
       THEN /\ req' = [req EXCEPT
                         ![r].pc = "done", ![r].reply = reply,
                         ![r].res = Append(@, Status500(
                             [error |-> "Cannot read properties of null"]))]
            /\ UNCHANGED <<activeConnections, subscriptions>>
       ELSE LET cacheKey == CacheKey(req[r].symbol, req[r].interval)
                formatted == formatCandles(reply.candles)
            IN /\ activeConnections' = MapSet(activeConnections, cacheKey, formatted)
               /\ subscriptions' = [subscriptions EXCEPT ![cacheKey] = @ + 1]
               /\ req' = [req EXCEPT ![r].pc = "done", ![r].reply = reply,
                                     ![r].res = Append(@, Json(formatted))]

GetRealTimeCandlesticksRejected(r, message) ==
    /\ req[r].kind = "getRealTimeCandlesticks" /\ req[r].pc = "await"
    /\ req' = [req EXCEPT ![r].pc = "done", ![r].reply = ErrorReply(message),
                          ![r].res = Append(@, Status500([error |-> message]))]
    /\ UNCHANGED <<activeConnections, subscriptions>>

\* The callback of an open chart subscription.
ChartCallback(symbol, interval, chart) ==
    /\ subscriptions[CacheKey(symbol, interval)] > 0
    /\ activeConnections' =
          MapSet(activeConnections, CacheKey(symbol, interval),
                 formatCandles(ChartArrays(chart)))
    /\ UNCHANGED <<subscriptions, req>>

---------------------------------------------------------------------------
(* The server: every handler, every provider outcome, every callback. *)

CandleReplies == {NullReply, CandlesReply(<<>>)} \cup {CandlesReply(w) : w \in SysWindows}

Next ==
    \/ \E r \in Reqs, s \in Symbols, i \in Intervals : GetCandlesticks(r, s, i)
    \/ \E r \in Reqs, reply \in CandleReplies : GetCandlesticksResolved(r, reply)
    \/ \E r \in Reqs, m \in ProviderErrors : GetCandlesticksRejected(r, m)
    \/ \E r \in Reqs, s \in Symbols, i \in Intervals : CtlGetCandlesticks(r, s, i)
    \/ \E r \in Reqs, reply \in CandleReplies : CtlGetCandlesticksResolved(r, reply)
    \/ \E r \in Reqs, m \in ProviderErrors : CtlGetCandlesticksRejected(r, m)
    \/ \E r \in Reqs, s \in Symbols : GetRealTimePrice(r, s)
    \/ \E r \in Reqs, p \in TickerPrices : GetRealTimePriceResolved(r, p)
    \/ \E r \in Reqs, m \in ProviderErrors : GetRealTimePriceRejected(r, m)
    \/ \E s \in Symbols, p \in TickerPrices : TickerCallback(s, p)
    \/ \E r \in Reqs, s \in Symbols, i \in Intervals : GetRealTimeCandlesticks(r, s, i)
    \/ \E r \in Reqs, reply \in CandleReplies : GetRealTimeCandlesticksResolved(r, reply)
    \/ \E r \in Reqs, m \in ProviderErrors : GetRealTimeCandlesticksRejected(r, m)
    \/ \E s \in Symbols, i \in Intervals, w \in SysWindows : ChartCallback(s, i, w)

Spec == Init /\ [][Next]_vars

(* The cleaning pass alone: one getCandlesticks request over every window. *)

NextClean ==
    \/ \E s \in Symbols, i \in Intervals : GetCandlesticks(1, s, i)
    \/ /\ req[1].pc = "await"
       /\ \E n \in 1..MaxLen : \E f \in [1..n -> Shapes] :
             GetCandlesticksResolved(1, CandlesReply(WindowOf(f)))
    \/ GetCandlesticksResolved(1, CandlesReply(ScenarioWindow))

SpecClean == Init /\ [][NextClean]_vars

---------------------------------------------------------------------------
(* What the properties below speak about. *)

\* Request r is a getCandlesticks request that got a non-empty window and
\* has responded.
DoneClean(r) ==
    /\ req[r].kind = "getCandlesticks" /\ req[r].pc = "done"
    /\ req[r].reply.tag = "candles" /\ Len(req[r].reply.candles) > 0

\* The provider's candles of request r, and their number.
Raw(r) == [i \in 1..Len(req[r].reply.candles) |-> req[r].reply.candles[i].v]
N(r) == Len(req[r].reply.candles)
\* The candles of the response of request r.
Out(r) == req[r].res[1].body
\* `formatted` and the thresholds of request r.
In(r) == ParseCandles(req[r].reply.candles)
Th(r) == detectOutliers(In(r))
\* isOutlierHigh || isOutlierLow for each candle of request r.
Flags(r) ==
    LET in == In(r)
        th == detectOutliers(in)
    IN [i \in 1..Len(in) |-> isOutlierHigh(in[i], th) \/ isOutlierLow(in[i], th)]
Flagged(r, i) == Flags(r)[i]

SamePrices(a, b) ==
    a.open = b.open /\ a.high = b.high /\ a.low = b.low /\ a.close = b.close

\* The most recent candle before k that is not flagged, for the flags of a
\* window.
LastClean(flags, k) ==
    CHOOSE j \in 1..(k - 1) :
        ~flags[j] /\ \A m \in (j + 1)..(k - 1) : flags[m]

---------------------------------------------------------------------------
\* C1: every flagged candle of a leading run of flagged candles is emitted
\* with its own open/high/low/close and is never stored as the last-accepted
\* candle, so no candle is ever given the prices of a flagged candle.  The
\* stored candle is a local of the loop; it is stated here by its effect: a
\* corrected candle carries the prices of a non-flagged candle before it.
LeadingOutliersPassThrough ==
    \A r \in Reqs : DoneClean(r) =>
        LET flags == Flags(r)
            raw == Raw(r)
            out == Out(r)
        IN /\ \A k \in 1..N(r) :
                 (\A j \in 1..k : flags[j]) => SamePrices(out[k], raw[k])
           /\ \A k \in 1..N(r) :
                 ~req[r].cleanedCandles[k].original =>
                     \E j \in 1..(k - 1) :
                         ~flags[j] /\ SamePrices(out[k], raw[j])

\* C2: a flagged candle k with a non-flagged candle before it is emitted
\* with the open/high/low/close of the most recent non-flagged candle before
\* k, also inside a run of consecutive flagged candles.
SubstitutesLastAccepted ==
    \A r \in Reqs : DoneClean(r) =>
        LET flags == Flags(r)
            raw == Raw(r)
            out == Out(r)
        IN \A k \in 1..N(r) :
              (flags[k] /\ \E j \in 1..(k - 1) : ~flags[j]) =>
                  SamePrices(out[k], raw[LastClean(flags, k)])

\* C2 witness: a non-flagged candle followed by two flagged candles whose
\* prices differ from it and from each other, both emitted with its prices.
SubstitutesLastAcceptedWitness ==
    \E r \in Reqs : DoneClean(r) /\
        LET flags == Flags(r)
            raw == Raw(r)
            out == Out(r)
        IN \E k \in 3..N(r) :
              /\ ~flags[k - 2] /\ flags[k - 1] /\ flags[k]
              /\ ~SamePrices(raw[k - 1], raw[k - 2])
              /\ ~SamePrices(raw[k], raw[k - 1])
              /\ SamePrices(out[k - 1], raw[k - 2])
              /\ SamePrices(out[k], raw[k - 2])

\* C3: the cleaned sequence has the length of the input, and every output
\* candle keeps the time and the volume of the input candle at its index.
KeepsLengthTimeVolume ==
    \A r \in Reqs : DoneClean(r) =>
        LET raw == Raw(r)
            out == Out(r)
        IN /\ Len(out) = N(r)
           /\ \A i \in 1..N(r) :
                 /\ out[i].time = raw[i].openTime
                 /\ out[i].volume = raw[i].volume

\* C3 witness: a response holding an accepted and a corrected candle.
KeepsLengthTimeVolumeWitness ==
    \E r \in Reqs : DoneClean(r) /\
        \E i, k \in 1..N(r) :
            /\ req[r].cleanedCandles[i].original
            /\ ~req[r].cleanedCandles[k].original
            /\ ~SamePrices(Out(r)[k], Raw(r)[k])
            /\ Out(r)[k].volume = Raw(r)[k].volume
            /\ Out(r)[k].time = Raw(r)[k].openTime

\* C4: every candle that is not flagged is emitted with all six fields equal
\* to its input values; with no candle flagged the output equals the input.
AcceptedUnchanged ==
    \A r \in Reqs : DoneClean(r) =>
        LET flags == Flags(r)
            raw == Raw(r)
            out == Out(r)
            same == [i \in 1..N(r) |->
                        out[i] = [time  |-> raw[i].openTime, open |-> raw[i].open,
                                  high  |-> raw[i].high,     low  |-> raw[i].low,
                                  close |-> raw[i].close,    volume |-> raw[i].volume]]
        IN /\ \A i \in 1..N(r) : ~flags[i] => same[i]
           /\ (\A i \in 1..N(r) : ~flags[i]) =>
                 (Len(out) = N(r) /\ \A i \in 1..N(r) : same[i])

\* C4 witness: a non-flagged candle emitted unchanged right after a corrected
\* candle with other prices.
AcceptedUnchangedWitness ==
    \E r \in Reqs : DoneClean(r) /\
        \E i \in 3..N(r) :
            /\ Flagged(r, i - 1) /\ ~Flagged(r, i)
            /\ ~req[r].cleanedCandles[i - 1].original
            /\ ~SamePrices(Raw(r)[i], Out(r)[i - 1])
            /\ SamePrices(Out(r)[i], Raw(r)[i])

-----------
(* C5: the flagging rule, stated without the code's sort. *)

\* The element at 0-based index floor(n/2) of the ascending order of
\* vals[1..n]: the value with at most floor(n/2) elements below it and more
\* than floor(n/2) elements at or below it.
AtMidIndex(vals) ==
    CHOOSE v \in {vals[j] : j \in 1..Len(vals)} :
        /\ Cardinality({j \in 1..Len(vals) : vals[j] < v}) <= Len(vals) \div 2
        /\ Cardinality({j \in 1..Len(vals) : vals[j] <= v}) > Len(vals) \div 2

\* Three times the typical price of each input candle, their median, and
\* three times the MAD.
Typical3(r) == [j \in 1..N(r) |-> Raw(r)[j].high + Raw(r)[j].low + Raw(r)[j].close]
Median3(r) == AtMidIndex(Typical3(r))
Mad3(r) ==
    LET t == Typical3(r)
        med == AtMidIndex(t)
    IN AtMidIndex([j \in 1..Len(t) |-> Abs(t[j] - med)])

\* p > median + 5*1.4826*MAD, p < median - 5*1.4826*MAD (times 3000), for
\* med and mad three times the median and the MAD.
Above(med, mad, p) == 3000 * p > 1000 * med + 7413 * mad
Below(med, mad, p) == 3000 * p < 1000 * med - 7413 * mad
RuleFlags(med, mad, c) ==
    \/ Above(med, mad, c.high) \/ Below(med, mad, c.high)
    \/ Above(med, mad, c.low)  \/ Below(med, mad, c.low)

\* C5: a candle is flagged exactly when its high or its low is strictly
\* above median + 5*1.4826*MAD or strictly below median - 5*1.4826*MAD, where
\* median and MAD are the elements at index floor(n/2) of the sorted typical
\* prices and of the sorted absolute deviations of the whole input; open and
\* close are not tested.  A candle is corrected only if the rule flags it,
\* and is corrected if the rule flags it and not every candle before it.
FlaggedByMadRule ==
    \A r \in Reqs : DoneClean(r) =>
        LET med == Median3(r)
            mad == Mad3(r)
            th == Th(r)
            raw == Raw(r)
            in == In(r)
            rule == [i \in 1..N(r) |-> RuleFlags(med, mad, raw[i])]
        IN /\ th.median = med /\ th.mad = mad
           /\ \A i \in 1..N(r) :
                 /\ (isOutlierHigh(in[i], th) \/ isOutlierLow(in[i], th)) <=> rule[i]
                 /\ ~req[r].cleanedCandles[i].original => rule[i]
                 /\ (rule[i] /\ \E j \in 1..(i - 1) : ~rule[j])
                       => ~req[r].cleanedCandles[i].original

\* C5 witness: a window with MAD > 0 in which a candle is flagged by its
\* high alone and corrected, and a candle with close and open below the band
\* is not flagged.
FlaggedByMadRuleWitness ==
    \E r \in Reqs : DoneClean(r) /\
        LET med == Median3(r)
            mad == Mad3(r)
            raw == Raw(r)
        IN /\ mad > 0
           /\ \E i, j \in 1..N(r) :
                 /\ Above(med, mad, raw[i].high) /\ ~Above(med, mad, raw[i].low)
                 /\ ~Below(med, mad, raw[i].low)
                 /\ ~req[r].cleanedCandles[i].original
                 /\ ~RuleFlags(med, mad, raw[j])
                 /\ Below(med, mad, raw[j].close) /\ Below(med, mad, raw[j].open)

---------------------------------------------------------------------------
\* C6: for the window with open = high = low = close = 100, 101, 99, 102,
\* 5000 the median is 101, the MAD is 1, only candle 5 is flagged, it is
\* emitted with the prices of candle 4 (102) and its own time and volume, and
\* candles 1 to 4 are emitted unchanged.
ScenarioCleaned ==
    \A r \in Reqs : (DoneClean(r) /\ req[r].reply.candles = ScenarioWindow) =>
        LET flags == Flags(r)
            raw == Raw(r)
            out == Out(r)
            th == Th(r)
        IN /\ th.median = 3 * 101 /\ th.mad = 3 * 1
           /\ \A i \in 1..5 : flags[i] <=> i = 5
           /\ out[5] = [time |-> raw[5].openTime, open |-> 102, high |-> 102,
                        low |-> 102, close |-> 102, volume |-> raw[5].volume]
           /\ raw[5].openTime # raw[4].openTime
           /\ raw[5].volume # raw[4].volume
           /\ Len(out) = 5
           /\ \A i \in 1..4 :
                 out[i] = [time  |-> raw[i].openTime, open |-> raw[i].open,
                           high  |-> raw[i].high,     low  |-> raw[i].low,
                           close |-> raw[i].close,    volume |-> raw[i].volume]
           /\ <<out[1].close, out[2].close, out[3].close, out[4].close>>
                 = <<100, 101, 99, 102>>

\* C6 witness: a response to the scenario window.
ScenarioCleanedWitness ==
    \E r \in Reqs : DoneClean(r) /\ req[r].reply.candles = ScenarioWindow
                      /\ Len(Out(r)) = 5 /\ Out(r)[5].high = 102

---------------------------------------------------------------------------
\* C7: every candle sequence a candle endpoint returns, and every candle
\* sequence in the Map, is the cleaning pass applied to a provider window.
CleanedWindows == {StripOriginal(CleanedCandles(w)) : w \in SysWindows}
CandleEndpoints == {"getCandlesticks", "ctlGetCandlesticks", "getRealTimeCandlesticks"}
EveryCandleResponseCleaned ==
    /\ \A r \in Reqs :
          (req[r].kind \in CandleEndpoints /\ req[r].pc = "done"
             /\ req[r].res[1].status = 200) => req[r].res[1].body \in CleanedWindows
    /\ \A s \in Symbols, i \in Intervals :
          Has(activeConnections, CacheKey(s, i)) =>
              activeConnections[CacheKey(s, i)] \in CleanedWindows

---------------------------------------------------------------------------
\* A reply without candles: null, an empty sequence, or a failed call.
NoData(reply) ==
    \/ reply.tag \in {"null", "error"}
    \/ reply.tag = "candles" /\ Len(reply.candles) = 0

\* C8: when the provider returns no candles or fails, getCandlesticks does
\* not run the cleaning scan and sends exactly one response, with status 500
\* and a payload of an error string and a details string; it sends 200 with a
\* candle array only when the provider returned at least one candle.
NoDataIs500 ==
    \A r \in Reqs : req[r].kind = "getCandlesticks" =>
        /\ Len(req[r].res) = (IF req[r].pc = "done" THEN 1 ELSE 0)
        /\ req[r].pc = "done" =>
              IF NoData(req[r].reply)
              THEN /\ req[r].res[1].status = 500
                   /\ DOMAIN req[r].res[1].body = {"error", "details"}
                   /\ req[r].res[1].body.error \in STRING
                   /\ req[r].res[1].body.details \in STRING
                   /\ req[r].cleanedCandles = <<>>
              ELSE /\ req[r].res[1].status = 200
                   /\ Len(req[r].reply.candles) >= 1
                   /\ Len(req[r].res[1].body) = Len(req[r].reply.candles)

\* C8 witness: getCandlesticks requests answered after an empty sequence.
NoDataIs500Witness ==
    \E r \in Reqs :
        /\ req[r].kind = "getCandlesticks" /\ req[r].pc = "done"
        /\ req[r].reply = CandlesReply(<<>>)
        /\ req[r].res[1].status = 500

---------------------------------------------------------------------------
\* C9: the response of getCandlesticks depends only on the provider's
\* sequence for that request: under every interleaving two requests given
\* the same sequence respond alike, and no step of getCandlesticks changes
\* activeConnections (or opens a subscription).
CleaningIsolated ==
    /\ [](\A r1, r2 \in Reqs :
            (req[r1].kind = "getCandlesticks" /\ req[r1].pc = "done"
               /\ req[r2].kind = "getCandlesticks" /\ req[r2].pc = "done"
               /\ req[r1].reply = req[r2].reply) => req[r1].res = req[r2].res)
    /\ [][\A r \in Reqs :
            (req'[r] # req[r] /\ req'[r].kind = "getCandlesticks") =>
                UNCHANGED <<activeConnections, subscriptions>>]_vars

\* C9 witness: two getCandlesticks requests given the same window with a
\* flagged candle have responded, one before and one after the Map got the
\* entry of their symbol and interval.
CleaningIsolatedWitness ==
    \E r1, r2 \in Reqs :
        /\ r1 < r2 /\ DoneClean(r1) /\ DoneClean(r2)
        /\ req[r1].reply = req[r2].reply
        /\ \E k \in 1..N(r1) : ~req[r1].cleanedCandles[k].original
        /\ Has(activeConnections, CacheKey(req[r2].symbol, req[r2].interval))
        /\ \E q \in Reqs : r1 < q /\ q < r2

---------------------------------------------------------------------------
\* C10: for every cache key at most one websocket subscription is ever
\* opened.
AtMostOneSubscription == \A k \in Keys : subscriptions[k] <= 1

=============================================================================
